---- MODULE Spec2Model ----
(***************************************************************************)
(* Model of the binary parsing engine of string_table_tools.py: the cursor *)
(* reader (AssetReader), the magic check (validate), the header resolver   *)
(* (get_asset_meta) and the string table decoder (parse_string_table).     *)
(*                                                                         *)
(* A buffer is a sequence of bytes 0..255; Python's 0-based offsets are    *)
(* kept, byte k of the buffer being data[k+1].  A text is the sequence of  *)
(* its code points.                                                        *)
(*                                                                         *)
(* TLC evaluates integers in 32 bits; Python's are unbounded.  A word read *)
(* from the buffer is carried as its 32-bit two's-complement pattern (an   *)
(* unsigned word whose top bit is set as value - 2^32): the source only    *)
(* tests such words for equality.  The cursor and every byte count are     *)
(* Python integers that can pass 2^31, and are carried as records          *)
(* [hi, lo] denoting hi * 10^9 + lo, see PyInt.                            *)
(***************************************************************************)
EXTENDS Integers, Sequences, FiniteSets, TLC

VARIABLES
    inp,      \* the values the buffer was built from
    op,       \* the entry point called: parse_meta, parse_string_table, read_string
    data,     \* AssetReader.__data
    cursor,   \* AssetReader.__cursor
    pc,       \* the statement the call is at
    hdr,      \* locals of get_asset_meta
    meta,     \* the Meta returned by get_asset_meta: <<>> or <<Meta>>
    tbl,      \* locals of parse_string_table, each << >> until bound, then <<value>>;
              \* `name` is the table name read, which the code binds to no local
    out,      \* parse_string_table's list `out`
    result,   \* what the entry point returned or raised
    reads     \* every struct.unpack performed: where, how many bytes, whether it succeeded

vars == <<inp, op, data, cursor, pc, hdr, meta, tbl, out, result, reads>>

-----------------------------------------------------------------------------
(* Bounds of the model.                                                    *)

\* longest table built
MaxEntries == 2
\* most bytes removed from the end of a built buffer
MaxCut == 4
\* longest prefix of a built buffer kept on its own
MaxKeep == 8
\* longest text given to read_string on its own
MaxText == 2

-----------------------------------------------------------------------------
(* Constants of the format.                                                *)

\* 0x9E2A83C1 as a 32-bit pattern (0x9E2A83C1 - 2^32)
MAGIC == -1641380927
LEGACY_VERSION == -8
ANCHOR == 40
STRING_TABLE == 1
PATH_SKIP == 12
PAYLOAD_SKIP == 28
NAME_SKIP == 12

-----------------------------------------------------------------------------
(* Bytes and slices.                                                       *)

Min(a, b) == IF a < b THEN a ELSE b
Max(a, b) == IF a > b THEN a ELSE b

\* struct.pack("i", v): the little-endian two's-complement bytes of v
Pack(v) ==
    << v % 256, (v \div 256) % 256, (v \div 65536) % 256, (v \div 16777216) % 256 >>

\* struct.unpack("i", b) of exactly four bytes
Word(b) ==
    b[1] + 256 * b[2] + 65536 * b[3]
      + 16777216 * (IF b[4] < 128 THEN b[4] ELSE b[4] - 256)

\* the Python integer hi * 10^9 + lo in its normal form: |lo| < 10^9 and lo
\* is zero or has the sign of hi; l is any integer TLC holds
Norm(h, l) ==
    LET c == h + (l \div 1000000000)
        r == l % 1000000000
    IN  IF c < 0 /\ r > 0 THEN [hi |-> c + 1, lo |-> r - 1000000000]
        ELSE [hi |-> c, lo |-> r]

\* the Python integer n
PyInt(n) == Norm(0, n)

\* a + b
Add(a, b) == Norm(a.hi + b.hi, a.lo + b.lo)

\* -a
Negate(a) == [hi |-> -a.hi, lo |-> -a.lo]

\* a < b
Lt(a, b) == a.hi < b.hi \/ (a.hi = b.hi /\ a.lo < b.lo)

\* a <= b
Le(a, b) == a = b \/ Lt(a, b)

\* Python's index normalisation of a slice bound i, a Python integer: the
\* index into s it denotes
SliceIndex(s, i) ==
    IF i.hi < 0 THEN 0
    ELSE IF i.hi > 0 THEN Len(s)
    ELSE IF i.lo < 0 THEN Max(0, i.lo + Len(s))
    ELSE Min(i.lo, Len(s))

\* data[i:j]
PySlice(s, i, j) ==
    LET a == SliceIndex(s, i)
        b == SliceIndex(s, j)
    IN  IF b <= a THEN << >> ELSE SubSeq(s, a + 1, b)

RECURSIVE Scan(_, _, _)
Scan(s, pat, i) ==
    IF i + Len(pat) > Len(s) THEN -1
    ELSE IF SubSeq(s, i + 1, i + Len(pat)) = pat THEN i
    ELSE Scan(s, pat, i + 1)

\* bytes.find(pat, start)
PyFind(s, pat, start) ==
    Scan(s, pat, SliceIndex(s, start))

\* the value of the unsigned word whose 32-bit pattern is u: u, or u + 2^32
\* when the top bit is set
Position(u) ==
    IF u >= 0 THEN PyInt(u) ELSE Add(PyInt(u), [hi |-> 4, lo |-> 294967296])

-----------------------------------------------------------------------------
(* Decoding.                                                               *)

IsHigh(u) == u >= 55296 /\ u <= 56319
IsLow(u) == u >= 56320 /\ u <= 57343

\* the 16-bit units of an even number of bytes
Units(b, bigEndian) ==
    [i \in 1..(Len(b) \div 2) |->
        IF bigEndian THEN 256 * b[2 * i - 1] + b[2 * i]
        ELSE b[2 * i - 1] + 256 * b[2 * i]]

RECURSIVE Surrogates(_, _, _)
\* the code points of units u from index i on, appended to acc;
\* [ok |-> FALSE] on a surrogate that is not part of a pair
Surrogates(u, i, acc) ==
    IF i > Len(u) THEN [ok |-> TRUE, text |-> acc]
    ELSE IF IsHigh(u[i])
    THEN IF i < Len(u) /\ IsLow(u[i + 1])
         THEN Surrogates(u, i + 2,
                  Append(acc, 65536 + (u[i] - 55296) * 1024 + (u[i + 1] - 56320)))
         ELSE [ok |-> FALSE, text |-> << >>]
    ELSE IF IsLow(u[i]) THEN [ok |-> FALSE, text |-> << >>]
    ELSE Surrogates(u, i + 1, Append(acc, u[i]))

\* bytes.decode('utf-16'): a leading FF FE or FE FF is a byte-order mark that
\* is consumed and selects the byte order; without one the order is little-endian
DecodeUtf16(b) ==
    LET le == Len(b) >= 2 /\ b[1] = 255 /\ b[2] = 254
        be == Len(b) >= 2 /\ b[1] = 254 /\ b[2] = 255
        body == IF le \/ be THEN SubSeq(b, 3, Len(b)) ELSE b
    IN  IF Len(b) % 2 = 1 THEN [ok |-> FALSE, text |-> << >>]
        ELSE Surrogates(Units(body, be), 1, << >>)

\* bytes.decode('ascii')
DecodeAscii(b) ==
    IF \A i \in 1..Len(b) : b[i] < 128
    THEN [ok |-> TRUE, text |-> b]
    ELSE [ok |-> FALSE, text |-> << >>]

\* the byte count of a string whose length prefix is count: count, or
\* -count * 2 for a negative one
ByteCount(count) ==
    IF count < 0 THEN Add(Negate(PyInt(count)), Negate(PyInt(count)))
    ELSE PyInt(count)

-----------------------------------------------------------------------------
(* The cursor reader.  A reader value rd carries the cursor, the log of    *)
(* reads, and whether an exception is in flight (ok = FALSE, err its       *)
(* kind): once one is, every later operation leaves rd as it is.           *)

Reader(c, log) == [cursor |-> c, reads |-> log, ok |-> TRUE, err |-> "", val |-> 0, text |-> << >>]

Thrown(rd, err) == [rd EXCEPT !.ok = FALSE, !.err = err]

Logged(rd, step, n, ok) ==
    [rd EXCEPT !.reads = Append(@, [step |-> step, at |-> rd.cursor, n |-> n, ok |-> ok])]

\* read_int
read_int(rd, step) ==
    IF ~rd.ok THEN rd
    ELSE LET raw == PySlice(data, rd.cursor, Add(rd.cursor, PyInt(4)))
         IN  IF Len(raw) # 4
             THEN Thrown(Logged(rd, step, PyInt(4), FALSE), "struct.error")
             ELSE [Logged(rd, step, PyInt(4), TRUE) EXCEPT
                      !.cursor = Add(@, PyInt(4)), !.val = Word(raw)]

\* read_uint
read_uint(rd, step) == read_int(rd, step)

\* skip
skip(rd, count) ==
    IF ~rd.ok THEN rd ELSE [rd EXCEPT !.cursor = Add(@, PyInt(count))]

\* reset
reset(rd, position) ==
    IF ~rd.ok THEN rd ELSE [rd EXCEPT !.cursor = position]

\* find_int
find_int(rd, value) == PyFind(data, Pack(value), rd.cursor)

\* value.endswith("\x00")
EndsWithNul(text) == Len(text) > 0 /\ text[Len(text)] = 0

\* the body of read_string after its length prefix was read into c.val
StringBody(c, step) ==
    LET n == ByteCount(c.val)
        raw == PySlice(data, c.cursor, Add(c.cursor, n))
        dec == IF c.val < 0 THEN DecodeUtf16(raw) ELSE DecodeAscii(raw)
    IN  IF PyInt(Len(raw)) # n
        THEN Thrown(Logged(c, step, n, FALSE), "struct.error")
        ELSE IF ~dec.ok
        THEN Thrown(Logged(c, step, n, TRUE), "UnicodeDecodeError")
        ELSE IF ~EndsWithNul(dec.text)
        THEN Thrown(Logged(c, step, n, TRUE), "String not null terminated")
        ELSE [Logged(c, step, n, TRUE) EXCEPT
                 !.cursor = Add(@, n),
                 !.text = SubSeq(dec.text, 1, Len(dec.text) - 1)]

\* read_string
read_string(rd, step) ==
    LET c == read_int(rd, step)
    IN  IF ~c.ok THEN c ELSE StringBody(c, step)

-----------------------------------------------------------------------------
(* The buffers parsed: built field by field from chosen values, then       *)
(* possibly damaged.                                                       *)

Zeros(n) == [i \in 1..n |-> 0]

\* a text in the single-byte form (wide = FALSE) or the UTF-16 form
Str(wide, chars) == [wide |-> wide, chars |-> chars]

UnitBytes(chars) ==
    [i \in 1..(2 * Len(chars)) |->
        IF i % 2 = 1 THEN chars[(i + 1) \div 2] % 256 ELSE chars[i \div 2] \div 256]

\* length prefix counting the terminator, characters, terminator `last`
EncodeStringWith(t, last) ==
    IF t.wide
    THEN Pack(-(Len(t.chars) + 1)) \o UnitBytes(Append(t.chars, last))
    ELSE Pack(Len(t.chars) + 1) \o Append(t.chars, last)

EncodeString(t) == EncodeStringWith(t, 0)

MagicBytes == Pack(MAGIC)

ProbeBytes(probe) ==
    IF probe = "zero" THEN Pack(0) \o Zeros(4)
    ELSE IF probe = "nonzero" THEN Pack(7)
    ELSE << >>

\* magic .. asset_type, filler
HeaderHead(h) ==
    MagicBytes \o Pack(h.file_version) \o Pack(h.license_version)
      \o Pack(h.ue_version) \o Pack(h.cook_version) \o Zeros(4)
      \o Pack(h.asset_type) \o h.filler

\* anchor, data_offset .. guid
HeaderTail(h, offset) ==
    (IF h.anchor THEN Pack(ANCHOR) ELSE << >>) \o Pack(offset)
      \o EncodeString(h.path) \o Zeros(PATH_SKIP) \o ProbeBytes(h.probe)
      \o EncodeString(h.asset_guid)

HeaderLen(h) == Len(HeaderHead(h) \o HeaderTail(h, 0))

\* the data_offset written: where the payload starts, the anchor's value,
\* or 0xFFFFFFFF
DataOffset(h) ==
    IF h.offset = "payload" THEN HeaderLen(h)
    ELSE IF h.offset = "anchor" THEN ANCHOR
    ELSE -1

BuildHeader(h) ==
    IF h.tail THEN HeaderHead(h) \o HeaderTail(h, DataOffset(h)) ELSE HeaderHead(h)

RECURSIVE EncodePairs(_)
EncodePairs(pairs) ==
    IF pairs = << >> THEN << >>
    ELSE EncodeString(pairs[1][1]) \o EncodeString(pairs[1][2])
           \o EncodePairs(Tail(pairs))

BuildPayload(p) ==
    IF ~p.present THEN << >>
    ELSE Zeros(PAYLOAD_SKIP) \o EncodeString(p.asset_guid) \o Zeros(NAME_SKIP)
           \o EncodeString(p.name) \o Pack(p.count) \o EncodePairs(p.entries)

Damage(b, mut) ==
    IF mut.kind = "magic" THEN [b EXCEPT ![1] = (@ + 1) % 256]
    ELSE IF mut.kind = "cut" THEN SubSeq(b, 1, Len(b) - mut.n)
    ELSE IF mut.kind = "keep" THEN SubSeq(b, 1, mut.n)
    ELSE b

Build(h, p, mut) == Damage(BuildHeader(h) \o BuildPayload(p), mut)

\* texts: "/G", "AB", "AC", "C", "T", "K", "V" in the single-byte form; e-acute and
\* "W" in the UTF-16 form
PathTexts == {Str(FALSE, <<47, 71>>), Str(TRUE, <<233>>)}
GuidAB == Str(FALSE, <<65, 66>>)
GuidAC == Str(FALSE, <<65, 67>>)
GuidC == Str(FALSE, <<67>>)
NameT == Str(FALSE, <<84>>)
Pairs == { <<Str(FALSE, <<75>>), Str(FALSE, <<86>>)>>,
           <<Str(FALSE, <<75>>), Str(TRUE, <<87>>)>> }

\* filler, anchor written, data_offset written
AnchorShapes ==
    { [filler |-> << >>, anchor |-> TRUE, offset |-> "payload"],
      [filler |-> Zeros(4), anchor |-> TRUE, offset |-> "payload"],
      [filler |-> Zeros(4), anchor |-> FALSE, offset |-> "payload"],
      [filler |-> Pack(ANCHOR), anchor |-> TRUE, offset |-> "payload"],
      [filler |-> << >>, anchor |-> TRUE, offset |-> "anchor"] }

Header(fv, lic, cook, type, shape, path, probe, guid, tail) ==
    [file_version |-> fv, license_version |-> lic, ue_version |-> 522,
     cook_version |-> cook, asset_type |-> type, filler |-> shape.filler,
     anchor |-> shape.anchor, offset |-> shape.offset, path |-> path,
     probe |-> probe, asset_guid |-> guid, tail |-> tail]

NoPayload == [present |-> FALSE]

NoDamage == [kind |-> "none", n |-> 0]

Cuts == [kind : {"cut"}, n : 1..MaxCut]

Keeps == [kind : {"keep"}, n : 0..MaxKeep]

\* headers given to parse_meta
MetaHeaders ==
    { Header(fv, 3, cook, type, shape, path, probe, GuidAB, TRUE) :
        fv \in {LEGACY_VERSION, 1}, cook \in {0, 5}, type \in {1, 2},
        shape \in AnchorShapes, path \in PathTexts,
        probe \in {"zero", "none", "nonzero"} }

\* headers that stop after one filler byte, without anchor
StubHeaders ==
    { Header(fv, lic, 5, 1, [filler |-> <<0>>, anchor |-> FALSE, offset |-> "payload"],
             Str(FALSE, << >>), "none", Str(FALSE, << >>), FALSE) :
        fv \in {1, 16777216}, lic \in {0, 3} }

\* headers given to parse_string_table
TableHeaders ==
    { Header(fv, 3, 5, type, [filler |-> << >>, anchor |-> TRUE, offset |-> offset],
             Str(FALSE, <<47, 71>>), probe, GuidAB, TRUE) :
        fv \in {LEGACY_VERSION, 1}, type \in {1, 2}, probe \in {"zero", "none"},
        offset \in {"payload", "far"} }

RECURSIVE SeqsUpTo(_, _)
SeqsUpTo(S, n) ==
    IF n = 0 THEN { << >> }
    ELSE LET shorter == SeqsUpTo(S, n - 1)
         IN  shorter \cup { Append(s, x) : s \in shorter, x \in S }

\* payloads: the declared count is -1, the number of pairs, or one more
Payloads ==
    { [present |-> TRUE, asset_guid |-> g, name |-> NameT, count |-> c, entries |-> e] :
        g \in {GuidAB, GuidAC, GuidC},
        c \in {-1} \cup (0..(MaxEntries + 1)),
        e \in SeqsUpTo(Pairs, MaxEntries) }

TablePayloads == { p \in Payloads : p.count \in {-1, Len(p.entries), Len(p.entries) + 1} }

NoHeaderLocals ==
    [file_version |-> 0, license_version |-> 0, ue_version |-> 0, cook_version |-> 0,
     asset_type |-> 0, anchor_from |-> PyInt(0), find_int |-> 0, data_offset |-> 0,
     path |-> << >>, v |-> 0, asset_guid |-> << >>]

NoTableLocals == [asset_guid |-> << >>, name |-> << >>, count |-> << >>]

NoResult == [kind |-> "none"]

Start(family, entry, h, p, mut) ==
    /\ inp = [family |-> family, h |-> h, p |-> p, mut |-> mut]
    /\ op = entry
    /\ data = Build(h, p, mut)
    /\ cursor = PyInt(0)
    /\ pc = "validate"
    /\ hdr = NoHeaderLocals
    /\ meta = << >>
    /\ tbl = NoTableLocals
    /\ out = << >>
    /\ result = NoResult
    /\ reads = << >>

InitMeta ==
    \E h \in MetaHeaders, mut \in {NoDamage, [kind |-> "magic", n |-> 0]} \cup Cuts \cup Keeps :
        Start("meta", "parse_meta", h, NoPayload, mut)

InitStub ==
    \E h \in StubHeaders : Start("stub", "parse_meta", h, NoPayload, NoDamage)

InitTable ==
    \E h \in TableHeaders, p \in TablePayloads,
       mut \in {NoDamage, [kind |-> "magic", n |-> 0]} \cup Cuts :
        Start("table", "parse_string_table", h, p, mut)

Init == InitMeta \/ InitStub \/ InitTable

-----------------------------------------------------------------------------
(* The calls, statement by statement.                                      *)

\* the reader at the start of a step
Now == Reader(cursor, reads)

\* an exception leaves the entry point wrapped in AssetParseException
Raised(rd) ==
    /\ pc' = "failed"
    /\ result' = [kind |-> "error", cause |-> rd.err]
    /\ cursor' = rd.cursor
    /\ reads' = rd.reads
    /\ UNCHANGED <<inp, op, data>>

\* ... before the step bound any local
Raise(rd) == Raised(rd) /\ UNCHANGED <<hdr, meta, tbl, out>>

Goto(rd, next) ==
    /\ pc' = next
    /\ cursor' = rd.cursor
    /\ reads' = rd.reads
    /\ UNCHANGED <<inp, op, data>>

\* a variant that compares the three high bytes only
BadMagicHighBytes(magic_number) == magic_number \div 256 # MAGIC \div 256

\* magic_number != 0x9E2A83C1
BadMagic(magic_number) == magic_number # MAGIC

\* validate
Validate ==
    /\ pc = "validate"
    /\ LET r == read_uint(Now, "validate")
       IN  IF ~r.ok THEN Raise(r)
           ELSE IF BadMagic(r.val) THEN Raise(Thrown(r, "Not a valid .uasset file"))
           ELSE /\ Goto(reset(r, PyInt(0)), "meta_versions")
                /\ UNCHANGED <<hdr, meta, tbl, out, result>>

\* get_asset_meta: skip the magic, read the three versions
MetaVersions ==
    /\ pc = "meta_versions"
    /\ LET r1 == read_int(skip(Now, 4), "meta_versions")
           r2 == read_uint(r1, "meta_versions")
           r3 == read_uint(r2, "meta_versions")
       IN  IF ~r3.ok
           THEN /\ Raised(r3)
                /\ hdr' = [hdr EXCEPT
                               !.file_version = IF r1.ok THEN r1.val ELSE @,
                               !.license_version = IF r2.ok THEN r2.val ELSE @]
                /\ UNCHANGED <<meta, tbl, out>>
           ELSE /\ Goto(r3, "meta_cook")
                /\ hdr' = [hdr EXCEPT !.file_version = r1.val,
                                      !.license_version = r2.val,
                                      !.ue_version = r3.val]
                /\ UNCHANGED <<meta, tbl, out, result>>

\* a variant that un-reads a zero cook_version in the legacy layout too
CookAbsentAnyVersion(cook_version, file_version) == cook_version = 0

\* cook_version == 0 and file_version != -8
CookAbsent(cook_version, file_version) ==
    cook_version = 0 /\ file_version # LEGACY_VERSION

\* get_asset_meta: the candidate cook_version, un-read when taken as absent
MetaCookVersion ==
    /\ pc = "meta_cook"
    /\ LET r1 == read_uint(Now, "meta_cook")
           r2 == IF r1.ok /\ CookAbsent(r1.val, hdr.file_version) THEN skip(r1, -4) ELSE r1
       IN  IF ~r2.ok THEN Raise(r2)
           ELSE /\ Goto(r2, "meta_asset_type")
                /\ hdr' = [hdr EXCEPT !.cook_version = r1.val]
                /\ UNCHANGED <<meta, tbl, out, result>>

\* get_asset_meta: four bytes skipped, asset_type
MetaAssetType ==
    /\ pc = "meta_asset_type"
    /\ LET r == read_uint(skip(Now, 4), "meta_asset_type")
       IN  IF ~r.ok THEN Raise(r)
           ELSE /\ Goto(r, "meta_anchor")
                /\ hdr' = [hdr EXCEPT !.asset_type = r.val]
                /\ UNCHANGED <<meta, tbl, out, result>>

\* a variant that continues on the match instead of behind it
AnchorResumeAtMatch(found) == found

\* a variant that steps back from the match
AnchorResumeBefore(found) == found - 4

\* find_int + 4
AnchorResume(found) == found + 4

\* get_asset_meta: search the anchor from the cursor on, continue behind it
MetaAnchor ==
    /\ pc = "meta_anchor"
    /\ LET found == find_int(Now, ANCHOR)
       IN  /\ Goto(reset(Now, PyInt(AnchorResume(found))), "meta_data_offset")
           /\ hdr' = [hdr EXCEPT !.anchor_from = cursor, !.find_int = found]
           /\ UNCHANGED <<meta, tbl, out, result>>

\* get_asset_meta: data_offset
MetaDataOffset ==
    /\ pc = "meta_data_offset"
    /\ LET r == read_uint(Now, "meta_data_offset")
       IN  IF ~r.ok THEN Raise(r)
           ELSE /\ Goto(r, "meta_path")
                /\ hdr' = [hdr EXCEPT !.data_offset = r.val]
                /\ UNCHANGED <<meta, tbl, out, result>>

\* get_asset_meta: path, twelve bytes skipped
MetaPath ==
    /\ pc = "meta_path"
    /\ LET r == read_string(Now, "meta_path")
       IN  IF ~r.ok THEN Raise(r)
           ELSE /\ Goto(skip(r, PATH_SKIP), "meta_probe")
                /\ hdr' = [hdr EXCEPT !.path = r.text]
                /\ UNCHANGED <<meta, tbl, out, result>>

\* the skip after the probe value v: four more bytes, or the probe un-read
ProbeSkip(v) == IF v = 0 THEN 4 ELSE -4

\* get_asset_meta: the probe
MetaProbe ==
    /\ pc = "meta_probe"
    /\ LET r == read_int(Now, "meta_probe")
       IN  IF ~r.ok THEN Raise(r)
           ELSE /\ Goto(skip(r, ProbeSkip(r.val)), "meta_guid")
                /\ hdr' = [hdr EXCEPT !.v = r.val]
                /\ UNCHANGED <<meta, tbl, out, result>>

\* AssetReader.Meta(...)
Meta(h, asset_guid) ==
    [file_version |-> h.file_version, license_version |-> h.license_version,
     ue_version |-> h.ue_version, cook_version |-> h.cook_version,
     asset_type |-> h.asset_type, data_offset |-> h.data_offset,
     path |-> h.path, asset_guid |-> asset_guid]

\* get_asset_meta: asset_guid, cursor back to 0, the Meta returned; parse_meta
\* returns it, parse_string_table goes on
MetaGuid ==
    /\ pc = "meta_guid"
    /\ LET r == read_string(Now, "meta_guid")
           m == Meta(hdr, r.text)
       IN  IF ~r.ok THEN Raise(r)
           ELSE /\ Goto(reset(r, PyInt(0)), IF op = "parse_meta" THEN "done" ELSE "table_type")
                /\ hdr' = [hdr EXCEPT !.asset_guid = r.text]
                /\ meta' = <<m>>
                /\ result' = IF op = "parse_meta" THEN [kind |-> "Meta", meta |-> m]
                             ELSE result
                /\ UNCHANGED <<tbl, out>>

\* a variant that only rejects asset type 0
UnsuitableZero(asset_type) == asset_type = 0

\* meta.asset_type != 0x1
Unsuitable(asset_type) == asset_type # STRING_TABLE

\* parse_string_table: the asset type check
TableType ==
    /\ pc = "table_type"
    /\ IF Unsuitable(meta[1].asset_type)
       THEN Raise(Thrown(Now, "Not a suitable string table"))
       ELSE /\ Goto(Now, "table_seek")
            /\ UNCHANGED <<hdr, meta, tbl, out, result>>

\* parse_string_table: move to the payload, skip its fixed head
TableSeek ==
    /\ pc = "table_seek"
    /\ Goto(skip(reset(Now, Position(meta[1].data_offset)), PAYLOAD_SKIP), "table_guid")
    /\ UNCHANGED <<hdr, meta, tbl, out, result>>

\* a variant that compares the first characters only
GuidFirstMismatch(asset_guid, meta_guid) ==
    SubSeq(asset_guid, 1, 1) # SubSeq(meta_guid, 1, 1)

\* asset_guid != meta.asset_guid
GuidMismatch(asset_guid, meta_guid) == asset_guid # meta_guid

\* parse_string_table: the payload's guid against the header's
TableGuid ==
    /\ pc = "table_guid"
    /\ LET r == read_string(Now, "table_guid")
       IN  IF ~r.ok THEN Raise(r)
           ELSE /\ tbl' = [tbl EXCEPT !.asset_guid = <<r.text>>]
                /\ IF GuidMismatch(r.text, meta[1].asset_guid)
                   THEN Raised(Thrown(r, "Asset code mismatch")) /\ UNCHANGED <<hdr, meta, out>>
                   ELSE Goto(r, "table_name") /\ UNCHANGED <<hdr, meta, out, result>>

\* parse_string_table: twelve bytes skipped, the table name read and dropped
TableName ==
    /\ pc = "table_name"
    /\ LET r == read_string(skip(Now, NAME_SKIP), "table_name")
       IN  IF ~r.ok THEN Raise(r)
           ELSE /\ Goto(r, "table_count")
                /\ tbl' = [tbl EXCEPT !.name = <<r.text>>]
                /\ UNCHANGED <<hdr, meta, out, result>>

\* parse_string_table: the number of entries
TableCount ==
    /\ pc = "table_count"
    /\ LET r == read_int(Now, "table_count")
       IN  IF ~r.ok THEN Raise(r)
           ELSE /\ Goto(r, "table_entry")
                /\ tbl' = [tbl EXCEPT !.count = <<r.val>>]
                /\ UNCHANGED <<hdr, meta, out, result>>

\* a variant that loops on the magnitude of count
LoopRunsMagnitude(count, done) == done < (IF count < 0 THEN -count ELSE count)

\* a variant that stops one pass early
LoopRunsShort(count, done) == done < count - 1

\* for _ in range(count): whether a pass follows `done` passes
LoopRuns(count, done) == done < count

\* a variant that keeps one entry per key, as a dictionary would
AppendedByKey(list, key, value) ==
    IF \E i \in 1..Len(list) : list[i][1] = key
    THEN [i \in 1..Len(list) |-> IF list[i][1] = key THEN <<key, value>> ELSE list[i]]
    ELSE Append(list, <<key, value>>)

\* out.append((key, value))
Appended(list, key, value) == Append(list, <<key, value>>)

\* parse_string_table: one pass of the loop
TableEntry ==
    /\ pc = "table_entry"
    /\ LoopRuns(tbl.count[1], Len(out))
    /\ LET k == read_string(Now, "table_entry")
           v == read_string(k, "table_entry")
       IN  IF ~v.ok THEN Raise(v)
           ELSE /\ Goto(v, "table_entry")
                /\ out' = Appended(out, k.text, v.text)
                /\ UNCHANGED <<hdr, meta, tbl, result>>

\* parse_string_table: return out
TableReturn ==
    /\ pc = "table_entry"
    /\ ~LoopRuns(tbl.count[1], Len(out))
    /\ Goto(Now, "done")
    /\ result' = [kind |-> "list", entries |-> out]
    /\ UNCHANGED <<hdr, meta, tbl, out>>

Next ==
    \/ Validate
    \/ MetaVersions
    \/ MetaCookVersion
    \/ MetaAssetType
    \/ MetaAnchor
    \/ MetaDataOffset
    \/ MetaPath
    \/ MetaProbe
    \/ MetaGuid
    \/ TableType
    \/ TableSeek
    \/ TableGuid
    \/ TableName
    \/ TableCount
    \/ TableEntry
    \/ TableReturn

Spec == Init /\ [][Next]_vars

-----------------------------------------------------------------------------
(* read_string on its own: one encoded text behind `lead` bytes, its       *)
(* terminator possibly replaced.                                           *)

\* characters of the single-byte form: NUL, "A", DEL
NarrowChars == {0, 65, 127}
\* UTF-16 units: NUL, "A", e-acute, U+FEFF, U+FFFE
WideChars == {0, 65, 233, 65279, 65534}
\* what replaces the terminator: "A", a byte above 127
NarrowEnds == {0, 65, 200}
\* what replaces the terminator: "A", U+FEFF, a high surrogate
WideEnds == {0, 65, 65279, 55296}

StringInputs ==
    { [family |-> "string", text |-> Str(FALSE, c), last |-> e, lead |-> n] :
        c \in SeqsUpTo(NarrowChars, MaxText), e \in NarrowEnds, n \in {0, 3} }
    \cup
    { [family |-> "string", text |-> Str(TRUE, c), last |-> e, lead |-> n] :
        c \in SeqsUpTo(WideChars, MaxText), e \in WideEnds, n \in {0, 3} }

\* length prefixes whose byte count no buffer holds: -2^31, -10^9 - 1, 2^31 - 1
FarPrefixes == {-2147483647 - 1, -1000000001, 2147483647}

\* a length prefix on its own, two bytes behind it
PrefixInputs ==
    { [family |-> "prefix", count |-> c, lead |-> n] : c \in FarPrefixes, n \in {0, 3} }

\* the bytes read_string is given
StringData(i) ==
    [k \in 1..i.lead |-> 9] \o
        (IF i.family = "prefix" THEN Pack(i.count) \o <<65, 0>>
         ELSE EncodeStringWith(i.text, i.last))

InitString ==
    \E i \in StringInputs \cup PrefixInputs :
        /\ inp = i
        /\ op = "read_string"
        /\ data = StringData(i)
        /\ cursor = PyInt(i.lead)
        /\ pc = "read_string"
        /\ hdr = NoHeaderLocals
        /\ meta = << >>
        /\ tbl = NoTableLocals
        /\ out = << >>
        /\ result = NoResult
        /\ reads = << >>

\* one call of read_string
ReadString ==
    /\ pc = "read_string"
    /\ LET r == read_string(Now, "read_string")
       IN  IF ~r.ok THEN Raise(r)
           ELSE /\ Goto(r, "done")
                /\ result' = [kind |-> "text", text |-> r.text]
                /\ UNCHANGED <<hdr, meta, tbl, out>>

NextString == ReadString

SpecString == InitString /\ [][NextString]_vars

-----------------------------------------------------------------------------
(* The claims.                                                             *)

Terminal == pc \in {"done", "failed"}

Failed == pc = "failed" /\ result.kind = "error"

LastRead == reads[Len(reads)]

TableSteps == {"table_guid", "table_name", "table_count", "table_entry"}

\* the Meta a header built from h stands for
ExpectedMeta(h) ==
    [file_version |-> h.file_version, license_version |-> h.license_version,
     ue_version |-> h.ue_version, cook_version |-> h.cook_version,
     asset_type |-> h.asset_type, data_offset |-> DataOffset(h),
     path |-> h.path.chars, asset_guid |-> h.asset_guid.chars]

\* the probe is a zero followed by four bytes, or no field of its own (the
\* length prefix of the guid, never zero, is then what is probed)
ProbeForm(h) == h.probe \in {"zero", "none"}

\* the first anchor pattern behind asset_type is the anchor itself
FillerFree(h) ==
    PyFind(h.filler \o Pack(ANCHOR), Pack(ANCHOR), PyInt(0)) = Len(h.filler)

\* parse_meta on an undamaged buffer built by the recipe: every field
\* written, the anchor the first of its pattern, the probe in one of its forms
BuiltWhole ==
    /\ op = "parse_meta"
    /\ inp.family = "meta"
    /\ inp.mut.kind = "none"
    /\ inp.h.anchor
    /\ FillerFree(inp.h)
    /\ ProbeForm(inp.h)

\* a cook_version the resolver does not take as absent
CookWritten(h) == h.file_version = LEGACY_VERSION \/ h.cook_version # 0

\* C1 as stated: parse_meta returns exactly the values any buffer of the
\* recipe was built from, in the legacy and in the general layout.
C1_Original ==
    (BuiltWhole /\ Terminal) =>
        result = [kind |-> "Meta", meta |-> ExpectedMeta(inp.h)]

\* C1 amended: parse_meta returns exactly the values the buffer was built
\* from, provided a buffer of the general layout has a non-zero
\* cook_version.
C1_LayoutRoundTrip ==
    (BuiltWhole /\ CookWritten(inp.h) /\ Terminal) =>
        result = [kind |-> "Meta", meta |-> ExpectedMeta(inp.h)]

C1_Witness ==
    /\ BuiltWhole
    /\ inp.h.file_version = LEGACY_VERSION
    /\ inp.h.cook_version = 0
    /\ inp.h.path.wide
    /\ pc = "done"
    /\ result = [kind |-> "Meta", meta |-> ExpectedMeta(inp.h)]

\* parse_string_table on an undamaged, valid table buffer
ValidTable ==
    /\ op = "parse_string_table"
    /\ inp.family = "table"
    /\ inp.mut.kind = "none"
    /\ inp.h.asset_type = STRING_TABLE
    /\ inp.h.offset = "payload"
    /\ inp.p.asset_guid = inp.h.asset_guid
    /\ inp.p.count = Len(inp.p.entries)

\* the texts of the pairs a payload was built from
ExpectedEntries(p) ==
    [i \in 1..Len(p.entries) |-> <<p.entries[i][1].chars, p.entries[i][2].chars>>]

\* C2: a valid table of n pairs parses to exactly those n pairs, in buffer
\* order, pairs with equal keys each kept at its own position.
C2_InOrder ==
    (ValidTable /\ Terminal) =>
        result = [kind |-> "list", entries |-> ExpectedEntries(inp.p)]

C2_Witness ==
    /\ ValidTable
    /\ pc = "done"
    /\ Len(result.entries) = 2
    /\ result.entries[1][1] = result.entries[2][1]
    /\ result.entries[1][2] # result.entries[2][2]

\* the entry count was read and is negative
NegativeCount ==
    /\ op = "parse_string_table"
    /\ tbl.count # << >>
    /\ tbl.count[1] < 0

\* C3 as stated: with a negative entry count parse_string_table fails and
\* returns no list.
C3_Original == (NegativeCount /\ Terminal) => Failed

\* C3 amended: with a negative entry count parse_string_table reads no
\* entry, raises nothing and returns the empty list.
C3_NegativeCountEmpty ==
    NegativeCount =>
        /\ pc \in {"table_entry", "done"}
        /\ out = << >>
        /\ \A i \in DOMAIN reads : reads[i].step # "table_entry"
        /\ pc = "done" => result = [kind |-> "list", entries |-> << >>]

C3_Witness ==
    /\ NegativeCount
    /\ inp.p.entries # << >>
    /\ pc = "done"
    /\ result = [kind |-> "list", entries |-> << >>]

\* the offsets at or after `from` where the anchor pattern starts
Occurrences(from) ==
    { i \in from..(Len(data) - 4) : SubSeq(data, i + 1, i + 4) = Pack(ANCHOR) }

Least(S) == CHOOSE x \in S : \A y \in S : x <= y

\* where the resolver continues after the anchor search
ResumeAt(from) ==
    IF Occurrences(from) = {} THEN 3 ELSE Least(Occurrences(from)) + 4

\* the offset the anchor search started from
AnchorFrom == SliceIndex(data, hdr.anchor_from)

\* C4 as stated: parse_meta returns a Meta only when the anchor pattern
\* occurs exactly once at or after the cursor reached behind asset_type.
C4_Original ==
    (op = "parse_meta" /\ pc = "done") =>
        Cardinality(Occurrences(AnchorFrom)) = 1

\* C4 amended: the anchor search never fails the parse; the resolver
\* continues 4 bytes behind the first occurrence at or after the cursor, or
\* at offset 3 when there is none, and the data_offset it returns is the
\* word found there.
C4_FirstMatch ==
    /\ pc = "meta_data_offset" =>
           /\ result = NoResult
           /\ cursor = PyInt(ResumeAt(AnchorFrom))
    /\ (op = "parse_meta" /\ pc = "done") =>
           result.meta.data_offset =
               Word(PySlice(data, PyInt(ResumeAt(AnchorFrom)),
                                  PyInt(ResumeAt(AnchorFrom) + 4)))

C4_Witness ==
    /\ op = "parse_meta"
    /\ pc = "done"
    /\ Occurrences(AnchorFrom) = {}
    /\ result.kind = "Meta"

\* the buffer does not start with the four magic bytes
WrongMagic ==
    /\ op \in {"parse_meta", "parse_string_table"}
    /\ PySlice(data, PyInt(0), PyInt(4)) # MagicBytes

\* C5: a buffer whose first four bytes are not the magic fails, and the
\* magic read is the only read: the cursor stays within the first four
\* bytes and no header or payload field is bound.
C5_MagicFirst ==
    WrongMagic =>
        \/ pc = "validate" /\ reads = << >>
        \/ /\ Failed
           /\ Len(data) >= 4 => result.cause = "Not a valid .uasset file"
           /\ Len(reads) = 1
           /\ reads[1].at = PyInt(0)
           /\ cursor \in {PyInt(0), PyInt(4)}
           /\ hdr = NoHeaderLocals /\ meta = << >> /\ tbl = NoTableLocals /\ out = << >>

C5_Witness ==
    /\ WrongMagic
    /\ op = "parse_string_table"
    /\ inp.mut.kind = "magic"
    /\ Failed
    /\ cursor = PyInt(4)

\* the payload guid was read and differs from the header's
GuidsDiffer ==
    /\ op = "parse_string_table"
    /\ meta # << >>
    /\ tbl.asset_guid # << >>
    /\ tbl.asset_guid[1] # meta[1].asset_guid

\* C6: when the guid read in the payload differs from Meta.asset_guid,
\* parse_string_table fails right there: the guid is the last thing read,
\* no name, count or entry is bound.
C6_GuidGate ==
    GuidsDiffer =>
        /\ Failed
        /\ result.cause = "Asset code mismatch"
        /\ LastRead.step = "table_guid"
        /\ LastRead.at = Add(Position(meta[1].data_offset), PyInt(PAYLOAD_SKIP + 4))
        /\ tbl.name = << >> /\ tbl.count = << >> /\ out = << >>

C6_Witness ==
    /\ GuidsDiffer
    /\ Failed
    /\ inp.p.entries # << >>
    /\ Len(tbl.asset_guid[1]) = Len(meta[1].asset_guid)

\* the pairs of the payload that lie whole in the buffer
PairsPresent ==
    LET e == inp.p.entries
        left == Len(EncodePairs(e)) - (IF inp.mut.kind = "cut" THEN inp.mut.n ELSE 0)
    IN  Cardinality({ k \in 1..Len(e) : Len(EncodePairs(SubSeq(e, 1, k))) <= left })

\* the declared count exceeds the pairs present
Underfilled ==
    /\ op = "parse_string_table"
    /\ inp.family = "table"
    /\ tbl.count # << >>
    /\ tbl.count[1] > PairsPresent

\* C7: when the declared count n exceeds the k pairs present, the read of
\* pair k+1 fails for lack of bytes and parse_string_table raises; the k
\* pairs decoded so far are not returned.
C7_NoPartial ==
    (Underfilled /\ Terminal) =>
        /\ Failed
        /\ result.cause = "struct.error"
        /\ Len(out) = PairsPresent
        /\ LastRead.step = "table_entry" /\ ~LastRead.ok

C7_Witness ==
    /\ Underfilled
    /\ Failed
    /\ tbl.count = <<3>>
    /\ Len(out) = 2

\* C8: read_string returns the encoded text and advances by 4 plus the
\* payload byte count; with the terminator replaced it fails.
C8_RoundTrip ==
    (op = "read_string" /\ inp.family = "string" /\ Terminal) =>
        IF inp.last = 0
        THEN /\ result = [kind |-> "text", text |-> inp.text.chars]
             /\ cursor = PyInt(inp.lead + Len(EncodeString(inp.text)))
        ELSE Failed

\* the header resolved to an asset type other than the string table's
OtherType ==
    /\ op = "parse_string_table"
    /\ meta # << >>
    /\ meta[1].asset_type # STRING_TABLE

\* C9: when Meta.asset_type is not 1, parse_string_table fails right behind
\* the header: the cursor is still where get_asset_meta left it, nothing of
\* the payload is read or bound.
C9_TypeGate ==
    OtherType =>
        \/ pc = "table_type"
        \/ /\ Failed
           /\ result.cause = "Not a suitable string table"
           /\ cursor = PyInt(0)
           /\ \A i \in DOMAIN reads : reads[i].step \notin TableSteps
           /\ tbl = NoTableLocals /\ out = << >>

C9_Witness ==
    /\ OtherType
    /\ Failed
    /\ inp.p.entries # << >>

\* C10: the cursor is never negative, every read that succeeded took its
\* bytes from inside the buffer, and every read that lacked bytes failed.
C10_InBounds ==
    /\ Le(PyInt(0), cursor)
    /\ \A i \in DOMAIN reads :
           /\ Le(PyInt(0), reads[i].at)
           /\ (reads[i].ok /\ Lt(PyInt(0), reads[i].n)) =>
                  Le(Add(reads[i].at, reads[i].n), PyInt(Len(data)))
           /\ (Lt(PyInt(Len(data)), Add(reads[i].at, reads[i].n)) /\ Lt(PyInt(0), reads[i].n)) =>
                  ~reads[i].ok

C10_Witness ==
    /\ hdr.find_int = -1
    /\ hdr.cook_version = 0 /\ hdr.file_version # LEGACY_VERSION
    /\ Failed
    /\ ~LastRead.ok
    /\ Lt(PyInt(Len(data)), Add(LastRead.at, LastRead.n))

====
